---------------------------- MODULE Spec2Model ----------------------------
(***************************************************************************)
(* A model of kitt's src/main.rs: one chat-completion request.             *)
(*                                                                         *)
(* main() initialises the logger, loads a .env file, calls request_chat    *)
(* and prints what it returned.  request_chat builds the fixed request,    *)
(* reads GPT_API_KEY, POSTs the request as JSON and decodes the JSON reply *)
(* into a ChatResponse.                                                    *)
(*                                                                         *)
(* Text the program produces (URL, header values, the request body) is a   *)
(* sequence of one-character strings, so that serialization is computed    *)
(* character by character.  A reply body is a JSON value tree (or text     *)
(* that is not JSON); decoding is the typed traversal serde derives.       *)
(***************************************************************************)
EXTENDS Integers, Sequences, FiniteSets, TLC

VARIABLES
    pc,          \* the statement main / request_chat is about to execute
    procEnv,     \* GPT_API_KEY as the process was started
    dotenvFile,  \* GPT_API_KEY as a .env file gives it
    endpoint,    \* how the remote endpoint will behave (an input)
    env,         \* GPT_API_KEY as env::var sees it
    chat_req,    \* <<>> or <<the ChatRequest built at lines 42-48>>
    auth_token,  \* <<>> or <<the Authorization header value of line 50>>
    wire,        \* the requests that left the process, in order
    res,         \* <<>> or <<the reqwest::Response of line 56>>
    decodes,     \* number of times a body was handed to the JSON decoder
    outcome,     \* how request_chat ended: "running", "Ok" or an error kind
    returned,    \* <<>> or <<the ChatResponse request_chat returned>>
    printed,     \* <<>> or <<the ChatResponse dbg! printed>>
    exitCode     \* -1 while running, then the process exit code

vars == << pc, procEnv, dotenvFile, endpoint, env, chat_req, auth_token,
           wire, res, decodes, outcome, returned, printed, exitCode >>

---------------------------------------------------------------------------
(* Bounds and constants *)

\* longest `choices` array an endpoint body carries
MaxChoices == 2

\* exit code of a Rust process whose main thread panicked
PanicExit == 101

\* exit code of a Rust process whose main returned
SuccessExit == 0

GPT_COMPLETION_URL == <<
    "h","t","t","p","s",":","/","/","a","p","i",".","o","p","e","n","a","i",
    ".","c","o","m","/","v","1","/","c","h","a","t","/","c","o","m","p","l",
    "e","t","i","o","n","s" >>

GPT_API_KEY == "GPT_API_KEY"

ModelName == << "g","p","t","-","3",".","5","-","t","u","r","b","o" >>

UserRole == << "u","s","e","r" >>

HelloContent == << "H","e","l","l","o" >>

BearerPrefix == << "B","e","a","r","e","r"," " >>

ApplicationJson == <<
    "a","p","p","l","i","c","a","t","i","o","n","/","j","s","o","n" >>

---------------------------------------------------------------------------
(* Serialization of the request: #[derive(Serialize)] through serde_json *)

\* serde_json's escaping of one character inside a JSON string
EscapeChar(c) ==
    IF c = "\"" THEN << "\\", "\"" >>
    ELSE IF c = "\\" THEN << "\\", "\\" >>
    ELSE IF c = "\n" THEN << "\\", "n" >>
    ELSE IF c = "\r" THEN << "\\", "r" >>
    ELSE IF c = "\t" THEN << "\\", "t" >>
    ELSE << c >>

RECURSIVE EscapeAll(_)
EscapeAll(s) ==
    IF s = << >> THEN << >>
    ELSE EscapeChar(Head(s)) \o EscapeAll(Tail(s))

\* a String field value: the escaped characters between double quotes
SerString(s) == << "\"" >> \o EscapeAll(s) \o << "\"" >>

\* a struct field: "name":value
SerField(name, value) == SerString(name) \o << ":" >> \o value

\* ChatMessage { role, content }, fields in declaration order
SerChatMessage(m) ==
    << "{" >> \o SerField(<< "r","o","l","e" >>, SerString(m.role))
    \o << "," >> \o SerField(<< "c","o","n","t","e","n","t" >>, SerString(m.content))
    \o << "}" >>

\* Vec<ChatMessage>: the elements in order, comma separated, in brackets
RECURSIVE SerMessagesFrom(_, _)
SerMessagesFrom(ms, i) ==
    IF i > Len(ms) THEN << >>
    ELSE (IF i > 1 THEN << "," >> ELSE << >>)
         \o SerChatMessage(ms[i]) \o SerMessagesFrom(ms, i + 1)

SerMessages(ms) == << "[" >> \o SerMessagesFrom(ms, 1) \o << "]" >>

\* ChatRequest { model, messages }, fields in declaration order
SerChatRequest(r) ==
    << "{" >> \o SerField(<< "m","o","d","e","l" >>, SerString(r.model))
    \o << "," >> \o SerField(<< "m","e","s","s","a","g","e","s" >>, SerMessages(r.messages))
    \o << "}" >>

---------------------------------------------------------------------------
(* JSON values of a reply body *)

\* text that is not JSON at all (truncated, HTML, trailing garbage, ...)
Malformed == [t |-> "malformed"]

JNull == [t |-> "null"]

JStr(s) == [t |-> "string", s |-> s]

\* an integer that fits in 64 signed bits
JInt(n) == [t |-> "int", n |-> n]

\* an integer literal beyond the 64-bit signed range
JBigInt == [t |-> "bigint"]

\* a number with a fraction or an exponent
JFloat == [t |-> "float"]

JArr(a) == [t |-> "array", a |-> a]

\* an object: its members in document order (a key may repeat)
JObj(o) == [t |-> "object", o |-> o]

Member(k, v) == [k |-> k, v |-> v]

---------------------------------------------------------------------------
(* Decoding of the reply: #[derive(Deserialize)] through serde_json *)

Err == [ok |-> FALSE]

Ok(x) == [ok |-> TRUE, val |-> x]

\* DeString as a defaulted field would decode: null gives the empty string
DeStringNullAsEmpty(v) ==
    IF v.t = "string" THEN Ok(v.s)
    ELSE IF v.t = "null" THEN Ok(<< >>)
    ELSE Err

\* String: a JSON string and nothing else (null is rejected)
DeString(v) == IF v.t = "string" THEN Ok(v.s) ELSE Err

\* i64: an integer literal in range; floats, big integers, strings rejected
DeI64(v) == IF v.t = "int" THEN Ok(v.n) ELSE Err

\* positions of the members of object members o whose key is name
Occurrences(o, name) == { i \in DOMAIN o : o[i].k = name }

\* StructFields as #[serde(deny_unknown_fields)] would make it: an object
\* with a member the struct does not name is refused
StructFieldsDenyUnknown(v, names) ==
    IF v.t = "object" THEN
        IF /\ \A i \in DOMAIN names : Cardinality(Occurrences(v.o, names[i])) = 1
           /\ Len(v.o) = Len(names)
        THEN Ok([ i \in DOMAIN names |->
                    v.o[CHOOSE j \in Occurrences(v.o, names[i]) : TRUE].v ])
        ELSE Err
    ELSE IF v.t = "array" THEN
        IF Len(v.a) = Len(names) THEN Ok(v.a) ELSE Err
    ELSE Err

\* The derived visitor of a struct with the named fields, in declaration
\* order.  visit_map: every field exactly once (a repeated key is a
\* "duplicate field" error, an absent one a "missing field" error), unknown
\* keys skipped.  visit_seq: the values in declaration order, neither fewer
\* ("invalid length") nor more ("trailing characters").  Anything else is
\* an "invalid type" error.  The result maps each field to its JSON value.
StructFields(v, names) ==
    IF v.t = "object" THEN
        IF \A i \in DOMAIN names : Cardinality(Occurrences(v.o, names[i])) = 1
        THEN Ok([ i \in DOMAIN names |->
                    v.o[CHOOSE j \in Occurrences(v.o, names[i]) : TRUE].v ])
        ELSE Err
    ELSE IF v.t = "array" THEN
        IF Len(v.a) = Len(names) THEN Ok(v.a) ELSE Err
    ELSE Err

\* struct ChatMessage { role: String, content: String }
DeChatMessage(v) ==
    LET f == StructFields(v, << "role", "content" >>) IN
    IF ~f.ok THEN Err
    ELSE LET role == DeString(f.val[1])
             content == DeString(f.val[2])
         IN IF role.ok /\ content.ok
            THEN Ok([role |-> role.val, content |-> content.val])
            ELSE Err

\* struct ChatChoice { index: i64, message: ChatMessage, finish_reason: String }
DeChatChoice(v) ==
    LET f == StructFields(v, << "index", "message", "finish_reason" >>) IN
    IF ~f.ok THEN Err
    ELSE LET index == DeI64(f.val[1])
             message == DeChatMessage(f.val[2])
             finish_reason == DeString(f.val[3])
         IN IF index.ok /\ message.ok /\ finish_reason.ok
            THEN Ok([index |-> index.val, message |-> message.val,
                     finish_reason |-> finish_reason.val])
            ELSE Err

\* Vec<ChatChoice>: a JSON array every element of which decodes, in order
DeChoices(v) ==
    IF v.t = "array" /\ \A i \in DOMAIN v.a : DeChatChoice(v.a[i]).ok
    THEN Ok([ i \in DOMAIN v.a |-> DeChatChoice(v.a[i]).val ])
    ELSE Err

\* struct ChatResponse { id: String, object: String, created: i64,
\*                       choices: Vec<ChatChoice> }
DeChatResponse(v) ==
    LET f == StructFields(v, << "id", "object", "created", "choices" >>) IN
    IF ~f.ok THEN Err
    ELSE LET id == DeString(f.val[1])
             object == DeString(f.val[2])
             created == DeI64(f.val[3])
             choices == DeChoices(f.val[4])
         IN IF id.ok /\ object.ok /\ created.ok /\ choices.ok
            THEN Ok([id |-> id.val, object |-> object.val,
                     created |-> created.val, choices |-> choices.val])
            ELSE Err

\* ResponseJson behind error_for_status(): a non-2xx reply is an error
\* whatever its body
ResponseJsonCheckStatus(response) ==
    IF response.status \notin 200..299 THEN Err
    ELSE IF response.body.t = "malformed" THEN Err
    ELSE DeChatResponse(response.body)

\* Response::json::<ChatResponse>(): the body text is parsed and decoded;
\* the status line is not consulted
ResponseJson(response) ==
    IF response.body.t = "malformed" THEN Err
    ELSE DeChatResponse(response.body)

---------------------------------------------------------------------------
(* The inputs of a run: the environment and the endpoint *)

EnvAbsent == [kind |-> "absent", chars |-> << >>]

\* a value that is set but is not valid Unicode: env::var gives Err for it
EnvNotUnicode == [kind |-> "not_unicode", chars |-> << >>]

EnvValue(s) == [kind |-> "unicode", chars |-> s]

\* GPT_API_KEY of the starting process: unset, not Unicode, a usable token,
\* a value with a line break in it, or set to the empty string
ProcEnvValues ==
    { EnvAbsent, EnvNotUnicode, EnvValue(<< "s","k","-","A" >>),
      EnvValue(<< "s","k","\n","A" >>), EnvValue(<< >>) }

\* GPT_API_KEY of the .env file: no such file or line, or a token
DotenvValues == { EnvAbsent, EnvValue(<< "s","k","-","B" >>) }

\* HTTP status codes the endpoint answers with
Statuses == { 200, 401, 500 }

Assistant == << "a","s","s","i","s","t","a","n","t" >>

Stop == << "s","t","o","p" >>

MessageObject(content) ==
    JObj(<< Member("role", JStr(Assistant)), Member("content", JStr(content)) >>)

ChoiceObject(index, content, finish) ==
    JObj(<< Member("index", JInt(index)),
            Member("message", MessageObject(content)),
            Member("finish_reason", finish) >>)

\* the elements a `choices` array is built from: two proper choices, one
\* whose finish_reason is null, one written positionally
ChoiceValues ==
    { ChoiceObject(0, << "H","i" >>, JStr(Stop)),
      ChoiceObject(1, << "Y","o","\"" >>, JStr(Stop)),
      ChoiceObject(0, << "H","i" >>, JNull),
      JArr(<< JInt(0), JArr(<< JStr(Assistant), JStr(<< "H","i" >>) >>),
              JStr(Stop) >>) }

ChoiceLists == UNION { [1..n -> ChoiceValues] : n \in 0..MaxChoices }

CompletionId == JStr(<< "c","m","p","l","-","1" >>)

CompletionObjectTag ==
    JStr(<< "c","h","a","t",".","c","o","m","p","l","e","t","i","o","n" >>)

CompletionMembers(created, choices) ==
    << Member("id", CompletionId), Member("object", CompletionObjectTag),
       Member("created", created), Member("choices", JArr(choices)) >>

UsageMember == Member("usage", JObj(<< Member("total_tokens", JInt(9)) >>))

\* {"error":{"message":...,"type":...}}: what the API sends with a 4xx/5xx
ErrorBody ==
    JObj(<< Member("error",
              JObj(<< Member("message", JStr(<< "n","o" >>)),
                      Member("type", JStr(<< "a","u","t","h" >>)) >>)) >>)

OneChoice == << ChoiceObject(0, << "H","i" >>, JStr(Stop)) >>

Bodies ==
    { Malformed, JNull, ErrorBody }
    \cup { JObj(CompletionMembers(JInt(1677652288), cs)) : cs \in ChoiceLists }
    \cup { JObj(CompletionMembers(JInt(1677652288), cs) \o << UsageMember >>) :
             cs \in ChoiceLists }
    \cup { JObj(CompletionMembers(c, OneChoice)) :
             c \in { JFloat, JBigInt, JNull, JStr(<< "1" >>), JInt(-1) } }
    \cup { \* "created" absent
           JObj(SelectSeq(CompletionMembers(JInt(1), OneChoice),
                          LAMBDA m : m.k # "created")),
           \* "id" twice
           JObj(<< Member("id", CompletionId) >>
                \o CompletionMembers(JInt(1), OneChoice)),
           \* "choices" is an object
           JObj(<< Member("id", CompletionId),
                   Member("object", CompletionObjectTag),
                   Member("created", JInt(1)),
                   Member("choices", JObj(<< >>)) >>),
           \* the four values positionally, then one short, then one over
           JArr(<< CompletionId, CompletionObjectTag, JInt(1), JArr(OneChoice) >>),
           JArr(<< CompletionId, CompletionObjectTag, JInt(1) >>),
           JArr(<< CompletionId, CompletionObjectTag, JInt(1), JArr(OneChoice),
                   JNull >>) }

Unreachable == [reachable |-> FALSE, status |-> 0, body |-> Malformed]

Endpoints ==
    { Unreachable }
    \cup { [reachable |-> TRUE, status |-> st, body |-> b] :
             st \in Statuses, b \in Bodies }

---------------------------------------------------------------------------
(* The program *)

Init ==
    /\ pc = "init_logger"
    /\ procEnv \in ProcEnvValues
    /\ dotenvFile \in DotenvValues
    /\ endpoint \in Endpoints
    /\ env = procEnv
    /\ chat_req = << >>
    /\ auth_token = << >>
    /\ wire = << >>
    /\ res = << >>
    /\ decodes = 0
    /\ outcome = "running"
    /\ returned = << >>
    /\ printed = << >>
    /\ exitCode = -1

\* env_logger::init()
InitLogger ==
    /\ pc = "init_logger"
    /\ pc' = "dotenv"
    /\ UNCHANGED << procEnv, dotenvFile, endpoint, env, chat_req, auth_token,
                    wire, res, decodes, outcome, returned, printed, exitCode >>

\* What dotenv leaves in the variable: a key of the file is set only when
\* env::var(key) is an error, that is when the key is unset or not Unicode.
DotenvLoaded(current, file) ==
    IF current.kind = "unicode" \/ file.kind = "absent" THEN current ELSE file

\* dotenv().ok(): any failure to find or read the file is dropped
LoadDotenv ==
    /\ pc = "dotenv"
    /\ env' = DotenvLoaded(env, dotenvFile)
    /\ pc' = "build"
    /\ UNCHANGED << procEnv, dotenvFile, endpoint, chat_req, auth_token,
                    wire, res, decodes, outcome, returned, printed, exitCode >>

\* the ChatRequest literal of request_chat
FixedRequest ==
    [model |-> ModelName,
     messages |-> << [role |-> UserRole, content |-> HelloContent] >>]

BuildRequest ==
    /\ pc = "build"
    /\ chat_req' = << FixedRequest >>
    /\ pc' = "token"
    /\ UNCHANGED << procEnv, dotenvFile, endpoint, env, auth_token,
                    wire, res, decodes, outcome, returned, printed, exitCode >>

\* EnvVar followed by unwrap_or_default(): a missing key reads as ""
EnvVarOrDefault(value) ==
    IF value.kind = "unicode" THEN Ok(value.chars) ELSE Ok(<< >>)

\* env::var("GPT_API_KEY"): Ok for a set, Unicode value; Err otherwise
EnvVar(value) == IF value.kind = "unicode" THEN Ok(value.chars) ELSE Err

\* FormatBearer without the scheme: the bare token as the header value
FormatBearerBare(token) == token

\* format!("Bearer {}", token)
FormatBearer(token) == BearerPrefix \o token

\* let auth_token = format!("Bearer {}", env::var("GPT_API_KEY").unwrap());
\* unwrap on Err panics inside request_chat and the process exits.
ReadToken ==
    /\ pc = "token"
    /\ LET v == EnvVar(env) IN
       IF v.ok
       THEN /\ auth_token' = << FormatBearer(v.val) >>
            /\ pc' = "send"
            /\ UNCHANGED << outcome, exitCode >>
       ELSE /\ outcome' = "ConfigError"
            /\ exitCode' = PanicExit
            /\ pc' = "exit"
            /\ UNCHANGED auth_token
    /\ UNCHANGED << procEnv, dotenvFile, endpoint, env, chat_req,
                    wire, res, decodes, returned, printed >>


\* HeaderValue::try_from: a line break (or another control character) is
\* refused; the builder keeps the error and send() returns it
HeaderValueOk(value) == \A i \in DOMAIN value : value[i] \notin { "\n", "\r" }

\* client.post(url).header(AUTHORIZATION, auth).json(&req): json() writes the
\* serialized request as the body and sets Content-Type
PostJson(url, auth, req) ==
    [method |-> "POST", url |-> url, authorization |-> auth,
     content_type |-> ApplicationJson, body |-> SerChatRequest(req)]

\* SendAwait with error_for_status(): a non-2xx reply is an error
SendAwaitErrorForStatus(ep) ==
    IF ep.reachable /\ ep.status \in 200..299
    THEN Ok([status |-> ep.status, body |-> ep.body])
    ELSE Err

\* .send().await of a request that was built: the endpoint's response,
\* whatever its status, or a transport error (connection refused)
SendAwait(ep) ==
    IF ep.reachable THEN Ok([status |-> ep.status, body |-> ep.body]) ELSE Err

\* Send with the error of send() replaced by an empty reply instead of
\* being returned with `?`
SendNoPropagate ==
    /\ pc = "send"
    /\ IF ~HeaderValueOk(auth_token[1])
       THEN /\ outcome' = "NetworkError"
            /\ pc' = "unwrap"
            /\ UNCHANGED << wire, res >>
       ELSE /\ wire' = Append(wire, PostJson(GPT_COMPLETION_URL, auth_token[1],
                                             chat_req[1]))
            /\ LET r == SendAwait(endpoint) IN
               res' = << IF r.ok THEN r.val
                         ELSE [status |-> 0, body |-> Malformed] >>
            /\ pc' = "json"
            /\ UNCHANGED outcome
    /\ UNCHANGED << procEnv, dotenvFile, endpoint, env, chat_req, auth_token,
                    decodes, returned, printed, exitCode >>

\* Send with one retry after a transport error
SendRetry ==
    /\ pc = "send"
    /\ IF ~HeaderValueOk(auth_token[1])
       THEN /\ outcome' = "NetworkError"
            /\ pc' = "unwrap"
            /\ UNCHANGED << wire, res >>
       ELSE /\ wire' = Append(wire, PostJson(GPT_COMPLETION_URL, auth_token[1],
                                             chat_req[1]))
            /\ LET r == SendAwait(endpoint) IN
               IF r.ok
               THEN /\ res' = << r.val >>
                    /\ pc' = "json"
                    /\ UNCHANGED outcome
               ELSE IF Len(wire) = 0
               THEN /\ pc' = "send"
                    /\ UNCHANGED << res, outcome >>
               ELSE /\ outcome' = "NetworkError"
                    /\ pc' = "unwrap"
                    /\ UNCHANGED res
    /\ UNCHANGED << procEnv, dotenvFile, endpoint, env, chat_req, auth_token,
                    decodes, returned, printed, exitCode >>

\* let res = client.post(..).header(..).json(..).send().await?;
\* A request that could not be built is not sent.  `?` returns the error
\* of send() from request_chat.
Send ==
    /\ pc = "send"
    /\ IF ~HeaderValueOk(auth_token[1])
       THEN /\ outcome' = "NetworkError"
            /\ pc' = "unwrap"
            /\ UNCHANGED << wire, res >>
       ELSE /\ wire' = Append(wire, PostJson(GPT_COMPLETION_URL, auth_token[1],
                                             chat_req[1]))
            /\ LET r == SendAwait(endpoint) IN
               IF r.ok
               THEN /\ res' = << r.val >>
                    /\ pc' = "json"
                    /\ UNCHANGED outcome
               ELSE /\ outcome' = "NetworkError"
                    /\ pc' = "unwrap"
                    /\ UNCHANGED res
    /\ UNCHANGED << procEnv, dotenvFile, endpoint, env, chat_req, auth_token,
                    decodes, returned, printed, exitCode >>

\* trace!(...); Ok(res.json().await?)
Json ==
    /\ pc = "json"
    /\ decodes' = decodes + 1
    /\ LET r == ResponseJson(res[1]) IN
       IF r.ok
       THEN /\ outcome' = "Ok"
            /\ returned' = << r.val >>
       ELSE /\ outcome' = "DecodeError"
            /\ UNCHANGED returned
    /\ pc' = "unwrap"
    /\ UNCHANGED << procEnv, dotenvFile, endpoint, env, chat_req, auth_token,
                    wire, res, printed, exitCode >>

\* MainUnwrap as `if let Ok(r) = ...`: an error is dropped and main returns
MainUnwrapLenient ==
    /\ pc = "unwrap"
    /\ pc' = IF outcome = "Ok" THEN "dbg" ELSE "return"
    /\ UNCHANGED << procEnv, dotenvFile, endpoint, env, chat_req, auth_token,
                    wire, res, decodes, outcome, returned, printed, exitCode >>

\* request_chat(...).await.unwrap(): Err panics, the process exits
MainUnwrap ==
    /\ pc = "unwrap"
    /\ IF outcome = "Ok"
       THEN /\ pc' = "dbg"
            /\ UNCHANGED exitCode
       ELSE /\ exitCode' = PanicExit
            /\ pc' = "exit"
    /\ UNCHANGED << procEnv, dotenvFile, endpoint, env, chat_req, auth_token,
                    wire, res, decodes, outcome, returned, printed >>

\* dbg!(...): the unwrapped ChatResponse is printed
Dbg ==
    /\ pc = "dbg"
    /\ printed' = returned
    /\ pc' = "return"
    /\ UNCHANGED << procEnv, dotenvFile, endpoint, env, chat_req, auth_token,
                    wire, res, decodes, outcome, returned, exitCode >>

\* main returns
MainReturn ==
    /\ pc = "return"
    /\ exitCode' = SuccessExit
    /\ pc' = "exit"
    /\ UNCHANGED << procEnv, dotenvFile, endpoint, env, chat_req, auth_token,
                    wire, res, decodes, outcome, returned, printed >>

Next ==
    \/ InitLogger
    \/ LoadDotenv
    \/ BuildRequest
    \/ ReadToken
    \/ Send
    \/ Json
    \/ MainUnwrap
    \/ Dbg
    \/ MainReturn

Spec == Init /\ [][Next]_vars

---------------------------------------------------------------------------
(* Vocabulary of the properties *)

Errors == { "ConfigError", "NetworkError", "DecodeError" }

\* request_chat was called and has read (or failed to read) the token
PastToken == pc \notin { "init_logger", "dotenv", "build", "token" }

\* res.json() has run
PastJson == res # << >> /\ pc # "json"

NonSuccess(status) == status \notin 200..299

\* object v has exactly one member named k
HasOnce(v, k) ==
    v.t = "object" /\ Cardinality({ i \in DOMAIN v.o : v.o[i].k = k }) = 1

\* the value of the member of object v named k
Get(v, k) == v.o[CHOOSE i \in DOMAIN v.o : v.o[i].k = k].v

\* {role, content}, both strings
IsMessageObject(v) ==
    /\ HasOnce(v, "role") /\ Get(v, "role").t = "string"
    /\ HasOnce(v, "content") /\ Get(v, "content").t = "string"

\* {index, message:{role,content}, finish_reason}
IsChoiceObject(v) ==
    /\ HasOnce(v, "index") /\ Get(v, "index").t = "int"
    /\ HasOnce(v, "message") /\ IsMessageObject(Get(v, "message"))
    /\ HasOnce(v, "finish_reason") /\ Get(v, "finish_reason").t = "string"

\* The expected reply of the interface description:
\* {id, object, created, choices:[{index, message:{role,content}, finish_reason}]}
IsCompletionObject(v) ==
    /\ HasOnce(v, "id") /\ Get(v, "id").t = "string"
    /\ HasOnce(v, "object") /\ Get(v, "object").t = "string"
    /\ HasOnce(v, "created") /\ Get(v, "created").t = "int"
    /\ HasOnce(v, "choices") /\ Get(v, "choices").t = "array"
    /\ \A i \in DOMAIN Get(v, "choices").a : IsChoiceObject(Get(v, "choices").a[i])

\* The same three shapes when each struct may also be written as the array
\* of its field values in declaration order
IsTuple(v, n) == v.t = "array" /\ Len(v.a) = n

IsMessage(v) ==
    \/ IsMessageObject(v)
    \/ IsTuple(v, 2) /\ v.a[1].t = "string" /\ v.a[2].t = "string"

IsChoice(v) ==
    \/ /\ HasOnce(v, "index") /\ Get(v, "index").t = "int"
       /\ HasOnce(v, "message") /\ IsMessage(Get(v, "message"))
       /\ HasOnce(v, "finish_reason") /\ Get(v, "finish_reason").t = "string"
    \/ /\ IsTuple(v, 3)
       /\ v.a[1].t = "int" /\ IsMessage(v.a[2]) /\ v.a[3].t = "string"

IsChoiceArray(v) == v.t = "array" /\ \A i \in DOMAIN v.a : IsChoice(v.a[i])

IsCompletion(v) ==
    \/ /\ HasOnce(v, "id") /\ Get(v, "id").t = "string"
       /\ HasOnce(v, "object") /\ Get(v, "object").t = "string"
       /\ HasOnce(v, "created") /\ Get(v, "created").t = "int"
       /\ HasOnce(v, "choices") /\ IsChoiceArray(Get(v, "choices"))
    \/ /\ IsTuple(v, 4)
       /\ v.a[1].t = "string" /\ v.a[2].t = "string" /\ v.a[3].t = "int"
       /\ IsChoiceArray(v.a[4])

\* {"model":"gpt-3.5-turbo","messages":[{"role":"user","content":"Hello"}]}
ExpectedBody == <<
    "{","\"","m","o","d","e","l","\"",":","\"","g","p","t","-","3",".","5",
    "-","t","u","r","b","o","\"",",","\"","m","e","s","s","a","g","e","s",
    "\"",":","[","{","\"","r","o","l","e","\"",":","\"","u","s","e","r",
    "\"",",","\"","c","o","n","t","e","n","t","\"",":","\"","H","e","l","l",
    "o","\"","}","]","}" >>

---------------------------------------------------------------------------
(* Properties *)

\* C1: When GPT_API_KEY is absent from the environment request_chat reads
\* (the process environment as completed by .env), request_chat ends in
\* ConfigError, the process stops there, and no request was ever sent.
NoTokenFailsBeforeNetwork ==
    (env.kind = "absent" /\ PastToken) =>
        /\ outcome = "ConfigError"
        /\ pc = "exit"
        /\ Len(wire) = 0
        /\ res = << >> /\ decodes = 0 /\ returned = << >>

NoTokenWitness ==
    /\ procEnv.kind = "absent" /\ dotenvFile.kind = "absent"
    /\ pc = "exit" /\ outcome = "ConfigError" /\ Len(wire) = 0

\* C2: With a usable token and a reply whose body is a well-formed
\* completion object, request_chat returns a ChatResponse that carries the
\* body's id, object, created and, in order, each choice's index,
\* message.role, message.content and finish_reason unchanged.
WellFormedBodyReturned ==
    (PastJson /\ IsCompletionObject(res[1].body)) =>
        LET b == res[1].body
            cs == Get(b, "choices").a
        IN /\ outcome = "Ok"
           /\ Len(returned) = 1
           /\ returned[1].id = Get(b, "id").s
           /\ returned[1].object = Get(b, "object").s
           /\ returned[1].created = Get(b, "created").n
           /\ Len(returned[1].choices) = Len(cs)
           /\ \A i \in DOMAIN cs :
                /\ returned[1].choices[i].index = Get(cs[i], "index").n
                /\ returned[1].choices[i].message.role
                     = Get(Get(cs[i], "message"), "role").s
                /\ returned[1].choices[i].message.content
                     = Get(Get(cs[i], "message"), "content").s
                /\ returned[1].choices[i].finish_reason
                     = Get(cs[i], "finish_reason").s

WellFormedBodyWitness ==
    /\ pc = "exit" /\ outcome = "Ok"
    /\ IsCompletionObject(res[1].body)
    /\ HasOnce(res[1].body, "usage")
    /\ Len(returned[1].choices) = 2
    /\ returned[1].choices[1].message.content = << "H","i" >>
    /\ returned[1].choices[2].message.content = << "Y","o","\"" >>

\* C3: The process exit code is zero exactly when request_chat returned a
\* ChatResponse and that response was printed; every failure (missing
\* token, transport failure, undecodable body) exits non-zero.
ExitCodeZeroIffSuccess ==
    /\ pc # "exit" => exitCode = -1
    /\ pc = "exit" =>
         /\ exitCode # -1
         /\ exitCode = 0 <=>
              (outcome = "Ok" /\ Len(returned) = 1 /\ printed = returned)
         /\ outcome \in Errors <=> exitCode # 0

ExitCodeWitness ==
    /\ pc = "exit" /\ outcome = "DecodeError" /\ exitCode = PanicExit
    /\ printed = << >>

\* C4: When the request was sent and the endpoint refused the connection,
\* request_chat ends in NetworkError and no body is ever decoded.
UnreachableIsNetworkError ==
    (Len(wire) > 0 /\ ~endpoint.reachable) =>
        /\ outcome = "NetworkError"
        /\ decodes = 0
        /\ res = << >> /\ returned = << >> /\ printed = << >>

UnreachableWitness ==
    /\ pc = "exit" /\ Len(wire) = 1 /\ ~endpoint.reachable
    /\ outcome = "NetworkError" /\ exitCode = PanicExit

\* C5 as stated: whenever the reply body is not the expected completion
\* object, request_chat ends in DecodeError and nothing is returned or
\* printed.
NonObjectBodyIsDecodeError ==
    (PastJson /\ ~IsCompletionObject(res[1].body)) =>
        /\ outcome = "DecodeError"
        /\ returned = << >> /\ printed = << >>

\* C5: Whenever the reply body is neither the expected completion object
\* nor that shape with some of its structs written as arrays of their field
\* values in declaration order, request_chat ends in DecodeError, nothing is
\* returned or printed, and the process exits non-zero.
UndecodableBodyIsDecodeError ==
    (PastJson /\ ~IsCompletion(res[1].body)) =>
        /\ outcome = "DecodeError"
        /\ returned = << >> /\ printed = << >>
        /\ pc = "exit" => exitCode # 0

UndecodableBodyWitness ==
    /\ pc = "exit" /\ outcome = "DecodeError" /\ decodes = 1
    /\ HasOnce(res[1].body, "choices")
    /\ ~IsCompletion(res[1].body)

\* a step that ends the process with a failure and does nothing else
OnlyExits ==
    /\ pc' = "exit"
    /\ exitCode' # 0
    /\ outcome' = outcome
    /\ wire' = wire /\ decodes' = decodes
    /\ returned' = returned /\ printed' = printed

\* C6: The program sends at most one request and decodes at most one body,
\* and once request_chat has failed the only thing that still happens is
\* the exit: nothing is sent, decoded, returned or printed afterwards.
NoRetryNoRecovery ==
    /\ [](Len(wire) <= 1 /\ decodes <= 1)
    /\ [][(outcome \in Errors) => OnlyExits]_vars

NoRetryWitness ==
    /\ pc = "exit" /\ outcome = "NetworkError" /\ Len(wire) = 1
    /\ exitCode = PanicExit

\* C8: The request request_chat builds is the fixed one, and any request on
\* the wire is a POST to the chat-completions URL whose Authorization header
\* is "Bearer " followed by the token of GPT_API_KEY and whose body is the
\* expected text; with a token that is a legal header value it is sent.
FixedRequestSent ==
    /\ chat_req # << >> =>
         /\ chat_req[1].model = << "g","p","t","-","3",".","5","-","t","u","r","b","o" >>
         /\ chat_req[1].messages
              = << [role |-> << "u","s","e","r" >>,
                    content |-> << "H","e","l","l","o" >>] >>
    /\ \A i \in DOMAIN wire :
         /\ wire[i].method = "POST"
         /\ wire[i].url = GPT_COMPLETION_URL
         /\ wire[i].authorization = << "B","e","a","r","e","r"," " >> \o env.chars
         /\ wire[i].content_type = ApplicationJson
         /\ wire[i].body = ExpectedBody
    /\ (pc \notin { "init_logger", "dotenv", "build", "token", "send" }
        /\ env.kind = "unicode" /\ HeaderValueOk(env.chars)) => Len(wire) = 1

FixedRequestWitness ==
    /\ Len(wire) = 1
    /\ procEnv.kind = "absent"
    /\ wire[1].authorization
         = << "B","e","a","r","e","r"," ","s","k","-","B" >>
    /\ wire[1].body = ExpectedBody

\* C9: A reply with a non-2xx status and an error-shaped JSON body does not
\* make the send step fail with NetworkError: its body is decoded, and
\* request_chat ends in DecodeError.
ErrorStatusIsDecodeError ==
    /\ (Len(wire) > 0 /\ endpoint.reachable /\ NonSuccess(endpoint.status)
        /\ endpoint.body = ErrorBody) =>
           /\ outcome # "NetworkError"
           /\ res = << [status |-> endpoint.status, body |-> ErrorBody] >>
    /\ (PastJson /\ NonSuccess(res[1].status) /\ res[1].body = ErrorBody) =>
           /\ outcome = "DecodeError"
           /\ decodes = 1

ErrorStatusWitness ==
    /\ pc = "exit" /\ res # << >>
    /\ res[1].status = 401 /\ res[1].body = ErrorBody
    /\ outcome = "DecodeError" /\ exitCode = PanicExit

\* C10: After a successful send the outcome is the one the same body has
\* with status 200, whatever the status; so a non-2xx reply whose body is a
\* well-formed completion is returned, printed, and the process exits zero.
OutcomeIgnoresStatus ==
    /\ PastJson =>
         LET r == ResponseJson([status |-> 200, body |-> res[1].body]) IN
         /\ outcome = IF r.ok THEN "Ok" ELSE "DecodeError"
         /\ returned = IF r.ok THEN << r.val >> ELSE << >>
    /\ (pc = "exit" /\ res # << >> /\ NonSuccess(res[1].status)
        /\ IsCompletionObject(res[1].body)) =>
           /\ outcome = "Ok" /\ printed = returned /\ exitCode = 0

OutcomeIgnoresStatusWitness ==
    /\ pc = "exit" /\ res # << >> /\ res[1].status = 500
    /\ IsCompletionObject(res[1].body)
    /\ Len(Get(res[1].body, "choices").a) = 1
    /\ outcome = "Ok" /\ exitCode = 0

===========================================================================
